---- MODULE Spec2Model ----
(***************************************************************************)
(* Model of the budget estimation orchestrator of src/App.tsx (component   *)
(* App: the expense ledger, the derived totals / form validity and         *)
(* handleCalculate) and of the estimation client of                        *)
(* src/services/geminiService.ts.                                          *)
(*                                                                         *)
(* React state is modelled by one variable per useState cell.  Every       *)
(* synchronous segment of a handler (up to an await, or from the           *)
(* resumption of an await to the next one) is one atomic action: React     *)
(* batches the setState calls of a segment and nothing else runs inside    *)
(* it.  A handler reads the values of the render that created it, so an    *)
(* invocation of handleCalculate captures grossIncome, location,           *)
(* filingStatus, expenses, totalExpenses and isFormValid at the time it is *)
(* invoked and keeps reading those captured values after each await.       *)
(***************************************************************************)
EXTENDS Integers, Sequences, FiniteSets, TLC

\* ------------------------------------------------------------------ bounds
MaxRuns == 2
MaxExpenses == 3
MaxClock == 2
MaxEdits == 3
MaxListed == 2

\* ------------------------------------------------------- numbers (doubles)
\* A JavaScript number, or null / undefined where a cell or field may hold
\* them.  A finite double whose value is h * 2^53 + l, with l small, is
\* written v = h * TwoTo53 + l: TwoTo53 stands for 2^53, the first integer
\* above which a double no longer holds every integer.
TwoTo53 == 1024 * 1024

Num(n) == [k |-> "num", v |-> n]
NaN == [k |-> "nan", v |-> 0]
PosInf == [k |-> "inf", v |-> 0]
NegInf == [k |-> "ninf", v |-> 0]
Null == [k |-> "null", v |-> 0]
Undefined == [k |-> "undef", v |-> 0]

isNaN(x) == x.k \in {"nan", "undef"}

RECURSIVE Spacing(_)
\* distance between neighbouring doubles in the binade of h * 2^53, h >= 1
Spacing(h) == IF h <= 1 THEN 2 ELSE 2 * Spacing(h \div 2)

\* round-to-nearest, ties-to-even, of the exact integer a >= 0
RoundMagnitude(a) ==
    LET h == a \div TwoTo53
        s == Spacing(h)
        r == a % s
        down == a - r
        up == down + s
    IN  IF h = 0 \/ r = 0 THEN a
        ELSE IF 2 * r < s THEN down
        ELSE IF 2 * r > s THEN up
        ELSE IF down % (2 * s) = 0 THEN down ELSE up

RoundDouble(a) == IF a >= 0 THEN RoundMagnitude(a) ELSE 0 - RoundMagnitude(0 - a)

\* ToNumber of the operands of + and - : undefined -> NaN, null -> 0
ToNumber(x) == IF x.k = "undef" THEN NaN ELSE IF x.k = "null" THEN Num(0) ELSE x

Negate(x) ==
    CASE x.k = "num" -> Num(0 - x.v)
      [] x.k = "inf" -> NegInf
      [] x.k = "ninf" -> PosInf
      [] OTHER -> x

\* a + b on doubles
AddDouble(a0, b0) ==
    LET a == ToNumber(a0)
        b == ToNumber(b0)
    IN  IF a.k = "nan" \/ b.k = "nan" THEN NaN
        ELSE IF a.k = "num" /\ b.k = "num" THEN Num(RoundDouble(a.v + b.v))
        ELSE IF a.k = "num" THEN b
        ELSE IF b.k = "num" THEN a
        ELSE IF a.k = b.k THEN a
        ELSE NaN

\* a - b on doubles
SubDouble(a, b) == AddDouble(a, Negate(ToNumber(b)))

\* x > 0
GreaterThanZero(x) == x.k = "inf" \/ (x.k = "num" /\ x.v > 0)

\* ------------------------------------------------------------------ strings
\* The strings the inputs are drawn from.  parseFloat and trim are tabulated
\* on them: parseFloat skips leading white space, reads the longest numeric
\* prefix (also "Infinity") and yields NaN when there is none.
parseFloat(s) ==
    CASE s = "1" -> Num(1)
      [] s = "2" -> Num(2)
      [] s = "1500" -> Num(1500)
      [] s = "200" -> Num(200)
      [] s = "5000" -> Num(5000)
      [] s = "0" -> Num(0)
      [] s = "-5" -> Num(0 - 5)
      [] s = "12abc" -> Num(12)
      [] s = " 7 " -> Num(7)
      [] s = "9007199254740992" -> Num(TwoTo53)
      [] s = "Infinity" -> PosInf
      [] OTHER -> NaN

trim(s) ==
    CASE s = " " -> ""
      [] s = " 7 " -> "7"
      [] OTHER -> s

\* --------------------------------------------------------------- constants
NoError == "<null>"
UndefinedStr == "<undefined>"
ValidationMessage == "Please fill in your gross income, location, and at least one valid expense."
GenericMessage == "An error occurred during analysis. Please check your inputs and try again."
EstimatingStatus == "Estimating your taxes..."
AnalyzingStatus == "Analyzing your budget..."

\* values the form fields are edited to
IncomeInputs == {"", "5000"}
LocationInputs == {"", "Austin"}
FilingInputs == {"Single", "Head of Household"}
NameInputs == {"", "Rent/Mortgage"}
AmountInputs == {"", "1500", "abc"}

Runs == 1..MaxRuns

\* ----------------------------------------------------------------- state
VARIABLES
    grossIncome, filingStatus, location, expenses,      \* form state
    netIncome, estimatedTax, taxDisclaimer, analysis,   \* result state
    isLoading, loadingStatus, error, showResults,       \* lifecycle state
    now,        \* the reading of Date.now()
    runs,       \* the invocations of handleCalculate, in order of invocation
    invoked,    \* how many invocations there have been
    inflight,   \* the remote requests that have not been answered
    edits,      \* how many edits of the form there have been
    prior,      \* the result / lifecycle state before the first invocation
    stub        \* the answers of a deterministic stub of the remote service

formVars == <<grossIncome, filingStatus, location, expenses>>
orchVars == <<netIncome, estimatedTax, taxDisclaimer, analysis,
              isLoading, loadingStatus, error, showResults>>
runVars == <<runs, invoked, inflight>>
ghostVars == <<prior, stub>>
vars == <<formVars, orchVars, now, runVars, edits, ghostVars>>

\* --------------------------------------------------- derived values (useMemo)
IsValidExpenseUntrimmed(e) ==
    e.name # "" /\ e.amount # "" /\ ~isNaN(parseFloat(e.amount))

IsValidExpense(e) ==
    trim(e.name) # "" /\ trim(e.amount) # "" /\ ~isNaN(parseFloat(e.amount))

RECURSIVE Reduce(_, _)
\* validExpenses.reduce((sum, expense) => sum + parseFloat(expense.amount), acc)
Reduce(es, acc) ==
    IF es = <<>> THEN acc
    ELSE Reduce(Tail(es), AddDouble(acc, parseFloat(Head(es).amount)))

computeTotal(es) == Reduce(SelectSeq(es, IsValidExpense), Num(0))

formValidWithExpense(income, loc) ==
    /\ ~isNaN(parseFloat(income))
    /\ GreaterThanZero(parseFloat(income))
    /\ trim(loc) # ""
    /\ \E i \in DOMAIN expenses : IsValidExpense(expenses[i])

formValid(income, loc) ==
    LET numericGrossIncome == parseFloat(income)
    IN  ~isNaN(numericGrossIncome) /\ GreaterThanZero(numericGrossIncome) /\ trim(loc) # ""

totalExpenses == computeTotal(expenses)
isFormValidNeedingExpense == formValidWithExpense(grossIncome, location)
isFormValid == formValid(grossIncome, location)
remainingBalance == IF netIncome = Null THEN Null ELSE SubDouble(netIncome, totalExpenses)

\* ------------------------------------------------------------ expense ledger
NewExpense(id) == [id |-> id, name |-> "", amount |-> ""]

AddedExpense(prevExpenses, id) == Append(prevExpenses, NewExpense(id))

RemovedFirstExpense(prevExpenses, id) ==
    LET matches == {i \in DOMAIN prevExpenses : prevExpenses[i].id = id}
    IN  IF matches = {} THEN prevExpenses
        ELSE LET k == CHOOSE i \in matches : \A j \in matches : i <= j
             IN  SubSeq(prevExpenses, 1, k - 1)
                     \o SubSeq(prevExpenses, k + 1, Len(prevExpenses))

RemovedExpense(prevExpenses, id) == SelectSeq(prevExpenses, LAMBDA e : e.id # id)

ChangedExpense(prevExpenses, id, field, value) ==
    [i \in DOMAIN prevExpenses |->
        IF prevExpenses[i].id = id
        THEN [prevExpenses[i] EXCEPT ![field] = value]
        ELSE prevExpenses[i]]

IdsOf(es) == {es[i].id : i \in DOMAIN es}

\* -------------------------------------------------------- estimation client
\* What the remote service may answer to the tax request: a transport error,
\* a text that is not JSON, or a JSON object (a field that is absent reads
\* as undefined).
ErrorResponse == [kind |-> "error", text |-> "",
                  json |-> [estimatedNetIncome |-> Undefined,
                            estimatedTotalTax |-> Undefined,
                            disclaimer |-> UndefinedStr]]
MalformedResponse == [ErrorResponse EXCEPT !.kind = "text", !.text = "not json"]
JsonResponse(n, t, d) ==
    [kind |-> "json", text |-> "",
     json |-> [estimatedNetIncome |-> n, estimatedTotalTax |-> t, disclaimer |-> d]]

\* The answers drawn for the tax request of the r-th invocation: an error, a
\* text that is not JSON, an estimate, which differs from one request to the
\* next, or an object without estimatedNetIncome.
EstimateFor(r) ==
    [netIncome |-> Num(5000 - 1000 * r), totalTax |-> Num(1000 * r),
     disclaimer |-> "estimate " \o ToString(r)]
TaxResponses(r) ==
    LET e == EstimateFor(r)
    IN  { ErrorResponse, MalformedResponse,
          JsonResponse(e.netIncome, e.totalTax, e.disclaimer),
          JsonResponse(Undefined, e.totalTax, e.disclaimer) }

\* What the remote service may answer to the analysis request: a transport
\* error or a text, which may be empty.
TextResponse(t) == [ErrorResponse EXCEPT !.kind = "text", !.text = t]
NarrativeFor(r) == "tips " \o ToString(r)
AnalysisResponses(r) == {ErrorResponse, TextResponse(NarrativeFor(r))}

\* The answers a stub may be set to give: those above and, in addition, an
\* object without estimatedTotalTax and an empty narrative.
StubTaxResponses ==
    TaxResponses(1)
        \cup {JsonResponse(EstimateFor(1).netIncome, Undefined, EstimateFor(1).disclaimer)}
StubAnalysisResponses == AnalysisResponses(1) \cup {TextResponse("")}

NoTaxResult == [netIncome |-> Null, totalTax |-> Null, disclaimer |-> ""]

\* getEstimatedNetIncome, from the service's response on: JSON.parse throws
\* on a text that is not JSON, the object's fields are read as they are
getEstimatedNetIncome(response) ==
    IF response.kind = "json"
    THEN [ok |-> TRUE,
          value |-> [netIncome |-> response.json.estimatedNetIncome,
                     totalTax |-> response.json.estimatedTotalTax,
                     disclaimer |-> response.json.disclaimer]]
    ELSE [ok |-> FALSE, value |-> NoTaxResult]

\* getBudgetAnalysis builds its prompt before the request is sent:
\* netIncome.toFixed(2) throws when netIncome is no number
PromptThrows(request) == request.netIncome.k \in {"undef", "null"}

\* getBudgetAnalysis, from the service's response on: response.text as it is
getBudgetAnalysis(response) ==
    IF response.kind = "text"
    THEN [ok |-> TRUE, value |-> response.text]
    ELSE [ok |-> FALSE, value |-> ""]

\* ------------------------------------------------- handleCalculate: requests
NoTaxRequest == [grossMonthlyIncome |-> NaN, location |-> "", filingStatus |-> ""]
NoAnalysisRequest ==
    [grossIncome |-> NaN, netIncome |-> Null, location |-> "", expenses |-> <<>>,
     totalExpenses |-> NaN, remainingBalance |-> NaN]

\* the values of the render an invocation closes over
Closure ==
    [grossIncome |-> grossIncome, location |-> location, filingStatus |-> filingStatus,
     expenses |-> expenses, totalExpenses |-> totalExpenses, isFormValid |-> isFormValid]

TaxRequest(c) ==
    [grossMonthlyIncome |-> parseFloat(c.grossIncome), location |-> c.location,
     filingStatus |-> c.filingStatus]

NamedExpenseWithNumber(e) ==
    trim(e.name) # "" /\ trim(e.amount) # "" /\ ~isNaN(parseFloat(e.amount))

\* the filter of the expenses handed to getBudgetAnalysis
NamedExpense(e) == trim(e.name) # "" /\ trim(e.amount) # ""

AnalysisRequestOfLatestForm(c, taxResult) ==
    [grossIncome |-> parseFloat(grossIncome),
     netIncome |-> taxResult.netIncome,
     location |-> location,
     expenses |-> SelectSeq(c.expenses, NamedExpense),
     totalExpenses |-> c.totalExpenses,
     remainingBalance |-> SubDouble(taxResult.netIncome, c.totalExpenses)]

AnalysisRequestOfLatestTotal(c, taxResult) ==
    [grossIncome |-> parseFloat(c.grossIncome),
     netIncome |-> taxResult.netIncome,
     location |-> c.location,
     expenses |-> SelectSeq(c.expenses, NamedExpense),
     totalExpenses |-> totalExpenses,
     remainingBalance |-> SubDouble(taxResult.netIncome, totalExpenses)]

AnalysisRequest(c, taxResult) ==
    [grossIncome |-> parseFloat(c.grossIncome),
     netIncome |-> taxResult.netIncome,
     location |-> c.location,
     expenses |-> SelectSeq(c.expenses, NamedExpense),
     totalExpenses |-> c.totalExpenses,
     remainingBalance |-> SubDouble(taxResult.netIncome, c.totalExpenses)]

\* ---------------------------------------- handleCalculate: result / lifecycle
Orch ==
    [netIncome |-> netIncome, estimatedTax |-> estimatedTax,
     taxDisclaimer |-> taxDisclaimer, analysis |-> analysis,
     isLoading |-> isLoading, loadingStatus |-> loadingStatus,
     error |-> error, showResults |-> showResults]

SetOrch(o) ==
    /\ netIncome' = o.netIncome
    /\ estimatedTax' = o.estimatedTax
    /\ taxDisclaimer' = o.taxDisclaimer
    /\ analysis' = o.analysis
    /\ isLoading' = o.isLoading
    /\ loadingStatus' = o.loadingStatus
    /\ error' = o.error
    /\ showResults' = o.showResults

InitialOrch ==
    [netIncome |-> Null, estimatedTax |-> Null, taxDisclaimer |-> "", analysis |-> "",
     isLoading |-> FALSE, loadingStatus |-> "", error |-> NoError, showResults |-> FALSE]

RejectedHidingResults(o) == [o EXCEPT !.error = ValidationMessage, !.showResults = FALSE]

\* the validation branch
Rejected(o) == [o EXCEPT !.error = ValidationMessage]

BegunWithoutLoading(o) ==
    [o EXCEPT !.error = NoError, !.showResults = TRUE,
              !.analysis = "", !.netIncome = Null, !.estimatedTax = Null,
              !.loadingStatus = EstimatingStatus]

BegunWithStaleResults(o) ==
    [o EXCEPT !.error = NoError, !.isLoading = TRUE, !.showResults = TRUE,
              !.loadingStatus = EstimatingStatus]

\* from setError(null) to setLoadingStatus('Estimating your taxes...')
Begun(o) ==
    [o EXCEPT !.error = NoError, !.isLoading = TRUE, !.showResults = TRUE,
              !.analysis = "", !.netIncome = Null, !.estimatedTax = Null,
              !.loadingStatus = EstimatingStatus]

TaxStoredWithoutDisclaimer(o, taxResult) ==
    [o EXCEPT !.netIncome = taxResult.netIncome, !.estimatedTax = taxResult.totalTax,
              !.loadingStatus = AnalyzingStatus]

\* from setNetIncome(taxResult.netIncome) to setLoadingStatus('Analyzing your budget...')
TaxStored(o, taxResult) ==
    [o EXCEPT !.netIncome = taxResult.netIncome, !.estimatedTax = taxResult.totalTax,
              !.taxDisclaimer = taxResult.disclaimer, !.loadingStatus = AnalyzingStatus]

AnalysisStoredAppending(o, analysisResult) ==
    [o EXCEPT !.analysis = o.analysis \o analysisResult]

\* setAnalysis(analysisResult)
AnalysisStored(o, analysisResult) == [o EXCEPT !.analysis = analysisResult]

CaughtShowingResults(o) == [o EXCEPT !.error = GenericMessage]

\* the catch block
Caught(o) == [o EXCEPT !.error = GenericMessage, !.showResults = FALSE]

FinishedWithStatus(o) == [o EXCEPT !.isLoading = FALSE]

\* the finally block
Finished(o) == [o EXCEPT !.isLoading = FALSE, !.loadingStatus = ""]

\* ------------------------------------------- handleCalculate: invocations
EmptyClosure ==
    [grossIncome |-> "", location |-> "", filingStatus |-> "", expenses |-> <<>>,
     totalExpenses |-> Num(0), isFormValid |-> FALSE]

\* pc: where the invocation stands.  calls: the client functions it has
\* called.  taxOutcome / analysisOutcome: how each call ended.  taxResult:
\* its local of that name.  alone: no
\* other invocation has been awaiting a call at any time since it started.
NoRun ==
    [pc |-> "unused", closure |-> EmptyClosure, calls |-> <<>>,
     taxOutcome |-> "none", taxResult |-> NoTaxResult,
     analysisOutcome |-> "none", alone |-> TRUE]

\* an invocation that has returned: its closure and its locals are dropped
Returned(run, pc) ==
    [run EXCEPT !.pc = pc, !.closure = EmptyClosure, !.taxResult = NoTaxResult]

\* a request on its way to the remote service, or awaiting its answer
TaxCall(r, request) ==
    [run |-> r, call |-> "tax", tax |-> request, analysis |-> NoAnalysisRequest]
AnalysisCall(r, request) ==
    [run |-> r, call |-> "analysis", tax |-> NoTaxRequest, analysis |-> request]
Pending(r, call) == {m \in inflight : m.run = r /\ m.call = call}

Active(r) == runs[r].pc \in {"estimating", "analyzing"}
ActiveRuns == {r \in Runs : Active(r)}
Terminated(r) == runs[r].pc \in {"complete", "errored", "invalid"}

RequestsAtStartUnlessBusy(r, c) ==
    IF ActiveRuns # {} THEN {} ELSE {TaxCall(r, TaxRequest(c))}

\* the requests an invocation sends before its first await
RequestsAtStart(r, c) == {TaxCall(r, TaxRequest(c))}

\* the requests an invocation sends when its tax call has resolved
RequestsAfterTax(r, c, taxResult) == {AnalysisCall(r, AnalysisRequest(c, taxResult))}

RequestsDespiteTaxFailure(r, c) == {AnalysisCall(r, AnalysisRequest(c, NoTaxResult))}

\* the requests an invocation sends when its tax call has failed
RequestsAfterTaxFailure(r, c) == {}

\* the invocations once invocation r has started as `record`: those that are
\* awaiting a call are no longer alone
Started(r, record) ==
    [q \in Runs |->
        IF q = r THEN [record EXCEPT !.alone = (ActiveRuns = {})]
        ELSE IF Active(q) THEN [runs[q] EXCEPT !.alone = FALSE]
        ELSE runs[q]]

\* ------------------------------------------------------------------ actions
NoStub == [tax |-> ErrorResponse, analysis |-> ErrorResponse]

Init ==
    /\ grossIncome = ""
    /\ filingStatus = "Single"
    /\ location = ""
    /\ now = 1
    /\ expenses = <<[id |-> now, name |-> "Rent/Mortgage", amount |-> ""]>>
    /\ netIncome = Null
    /\ estimatedTax = Null
    /\ taxDisclaimer = ""
    /\ analysis = ""
    /\ isLoading = FALSE
    /\ loadingStatus = ""
    /\ error = NoError
    /\ showResults = FALSE
    /\ runs = [r \in Runs |-> NoRun]
    /\ invoked = 0
    /\ inflight = {}
    /\ edits = 0
    /\ prior = InitialOrch
    /\ stub = NoStub

TickTimingOut ==
    /\ now < MaxClock
    /\ now' = now + 1
    /\ runs' = [r \in Runs |->
                   IF Active(r) THEN Returned(runs[r], "errored") ELSE runs[r]]
    /\ inflight' = {}
    /\ IF ActiveRuns # {} THEN SetOrch(Finished(Caught(Orch))) ELSE UNCHANGED orchVars
    /\ UNCHANGED <<formVars, invoked, edits, ghostVars>>

\* Date.now() advances
Tick ==
    /\ now < MaxClock
    /\ now' = now + 1
    /\ UNCHANGED <<formVars, orchVars, runVars, edits, ghostVars>>

\* one more edit of the form
Edit ==
    /\ edits < MaxEdits
    /\ edits' = edits + 1

setGrossIncome(value) ==
    /\ value # grossIncome
    /\ grossIncome' = value
    /\ UNCHANGED <<filingStatus, location, expenses>>

setFilingStatus(value) ==
    /\ value # filingStatus
    /\ filingStatus' = value
    /\ UNCHANGED <<grossIncome, location, expenses>>

setLocation(value) ==
    /\ value # location
    /\ location' = value
    /\ UNCHANGED <<grossIncome, filingStatus, expenses>>

handleAddExpense ==
    /\ Len(expenses) < MaxExpenses
    /\ expenses' = AddedExpense(expenses, now)
    /\ UNCHANGED <<grossIncome, filingStatus, location>>

handleRemoveExpense(id) ==
    /\ expenses' = RemovedExpense(expenses, id)
    /\ UNCHANGED <<grossIncome, filingStatus, location>>

handleExpenseChange(id, field, value) ==
    /\ expenses' = ChangedExpense(expenses, id, field, value)
    /\ expenses' # expenses
    /\ UNCHANGED <<grossIncome, filingStatus, location>>

CalculateInvalidFallingThrough ==
    /\ invoked < MaxRuns
    /\ ~Closure.isFormValid
    /\ invoked' = invoked + 1
    /\ runs' = Started(invoked + 1,
                    [NoRun EXCEPT !.pc = "estimating", !.closure = Closure,
                                  !.calls = <<"tax">>, !.taxOutcome = "pending"])
    /\ inflight' = inflight \cup {TaxCall(invoked + 1, TaxRequest(Closure))}
    /\ SetOrch(Begun(Rejected(Orch)))
    /\ UNCHANGED <<formVars, now, edits, ghostVars>>

\* handleCalculate with an invalid form: the validation branch
CalculateInvalid ==
    /\ invoked < MaxRuns
    /\ ~Closure.isFormValid
    /\ invoked' = invoked + 1
    /\ runs' = [runs EXCEPT ![invoked + 1] = Returned(NoRun, "invalid")]
    /\ SetOrch(Rejected(Orch))
    /\ UNCHANGED <<formVars, now, inflight, edits, ghostVars>>

\* handleCalculate with a valid form, up to the first await
CalculateValid ==
    /\ invoked < MaxRuns
    /\ Closure.isFormValid
    /\ invoked' = invoked + 1
    /\ runs' = Started(invoked + 1,
                    [NoRun EXCEPT !.pc = "estimating", !.closure = Closure,
                                  !.calls = <<"tax">>, !.taxOutcome = "pending"])
    /\ inflight' = inflight \cup RequestsAtStart(invoked + 1, Closure)
    /\ SetOrch(Begun(Orch))
    /\ UNCHANGED <<formVars, now, edits, ghostVars>>

\* the tax call of invocation r resolves: up to the second await, or through
\* catch and finally when getBudgetAnalysis throws before sending
TaxResolve(r, response) ==
    LET out == getEstimatedNetIncome(response)
        request == AnalysisRequest(runs[r].closure, out.value)
        stored == TaxStored(Orch, out.value)
        called == [runs[r] EXCEPT !.taxOutcome = "resolved", !.taxResult = out.value,
                                  !.calls = Append(@, "analysis")]
    IN  /\ Pending(r, "tax") # {}
        /\ runs[r].pc = "estimating"
        /\ out.ok
        /\ IF PromptThrows(request)
           THEN /\ runs' = [runs EXCEPT ![r] =
                               Returned([called EXCEPT !.analysisOutcome = "rejected"],
                                        "errored")]
                /\ inflight' = inflight \ Pending(r, "tax")
                /\ SetOrch(Finished(Caught(stored)))
           ELSE /\ runs' = [runs EXCEPT ![r] =
                               [called EXCEPT !.pc = "analyzing",
                                              !.analysisOutcome = "pending"]]
                /\ inflight' = (inflight \ Pending(r, "tax"))
                                 \cup RequestsAfterTax(r, runs[r].closure, out.value)
                /\ SetOrch(stored)
        /\ UNCHANGED <<formVars, now, invoked, edits, ghostVars>>

\* the tax call of invocation r fails: catch and finally
TaxReject(r, response) ==
    /\ Pending(r, "tax") # {}
    /\ runs[r].pc = "estimating"
    /\ ~getEstimatedNetIncome(response).ok
    /\ runs' = [runs EXCEPT ![r] = Returned([@ EXCEPT !.taxOutcome = "rejected"], "errored")]
    /\ inflight' = (inflight \ Pending(r, "tax"))
                     \cup RequestsAfterTaxFailure(r, runs[r].closure)
    /\ SetOrch(Finished(Caught(Orch)))
    /\ UNCHANGED <<formVars, now, invoked, edits, ghostVars>>

\* the analysis call of invocation r resolves: setAnalysis and finally
AnalysisResolve(r, response) ==
    LET out == getBudgetAnalysis(response)
    IN  /\ Pending(r, "analysis") # {}
        /\ runs[r].pc = "analyzing"
        /\ out.ok
        /\ runs' = [runs EXCEPT ![r] =
                       Returned([@ EXCEPT !.analysisOutcome = "resolved"], "complete")]
        /\ inflight' = inflight \ Pending(r, "analysis")
        /\ SetOrch(Finished(AnalysisStored(Orch, out.value)))
        /\ UNCHANGED <<formVars, now, invoked, edits, ghostVars>>

\* the analysis call of invocation r fails: catch and finally
AnalysisReject(r, response) ==
    /\ Pending(r, "analysis") # {}
    /\ runs[r].pc = "analyzing"
    /\ ~getBudgetAnalysis(response).ok
    /\ runs' = [runs EXCEPT ![r] =
                   Returned([@ EXCEPT !.analysisOutcome = "rejected"], "errored")]
    /\ inflight' = inflight \ Pending(r, "analysis")
    /\ SetOrch(Finished(Caught(Orch)))
    /\ UNCHANGED <<formVars, now, invoked, edits, ghostVars>>

FormEdit ==
    /\ \/ \E value \in IncomeInputs : setGrossIncome(value)
       \/ \E value \in FilingInputs : setFilingStatus(value)
       \/ \E value \in LocationInputs : setLocation(value)
    /\ Edit
    /\ UNCHANGED <<orchVars, now, runVars, ghostVars>>

LedgerEdit ==
    /\ \/ handleAddExpense
       \/ \E id \in 1..MaxClock : handleRemoveExpense(id)
       \/ \E id \in 1..MaxClock, value \in NameInputs : handleExpenseChange(id, "name", value)
       \/ \E id \in 1..MaxClock, value \in AmountInputs : handleExpenseChange(id, "amount", value)
    /\ Edit
    /\ UNCHANGED <<orchVars, now, runVars, ghostVars>>

ServiceAnswer ==
    \/ \E r \in Runs : \E response \in TaxResponses(r) : TaxResolve(r, response)
    \/ \E r \in Runs : \E response \in TaxResponses(r) : TaxReject(r, response)
    \/ \E r \in Runs : \E response \in AnalysisResponses(r) : AnalysisResolve(r, response)
    \/ \E r \in Runs : \E response \in AnalysisResponses(r) : AnalysisReject(r, response)

Next ==
    \/ Tick
    \/ FormEdit
    \/ LedgerEdit
    \/ CalculateInvalid
    \/ CalculateValid
    \/ ServiceAnswer

Spec == Init /\ [][Next]_vars

\* the remote service answers the pending request of invocation r
Answer(r) ==
    \/ \E response \in TaxResponses(r) : TaxResolve(r, response)
    \/ \E response \in TaxResponses(r) : TaxReject(r, response)
    \/ \E response \in AnalysisResponses(r) : AnalysisResolve(r, response)
    \/ \E response \in AnalysisResponses(r) : AnalysisReject(r, response)

\* calculate() once the form has been filled in with a valid income and
\* location and is edited no more
InitLive ==
    /\ grossIncome = "5000"
    /\ filingStatus = "Single"
    /\ location = "Austin"
    /\ now = 1
    /\ expenses = <<[id |-> now, name |-> "Rent/Mortgage", amount |-> "1500"]>>
    /\ netIncome = Null
    /\ estimatedTax = Null
    /\ taxDisclaimer = ""
    /\ analysis = ""
    /\ isLoading = FALSE
    /\ loadingStatus = ""
    /\ error = NoError
    /\ showResults = FALSE
    /\ runs = [r \in Runs |-> NoRun]
    /\ invoked = 0
    /\ inflight = {}
    /\ edits = MaxEdits
    /\ prior = InitialOrch
    /\ stub = NoStub

NextLive ==
    \/ Tick
    \/ CalculateValid
    \/ ServiceAnswer

\* every request that is issued is answered in the end
SpecLive == InitLive /\ [][NextLive]_vars /\ \A r \in Runs : WF_vars(Answer(r))

\* ---------------------------------------------- the ledger and its total
\* The ledger after add() at n - 1 later clock readings: the initial entry and
\* n - 1 new ones.  Its entries are then edited to these names and amounts,
\* among them a name of white space only, an amount that parses to Infinity
\* and the amount 2^53.
LedgerNames == {"", " ", "Rent/Mortgage"}
LedgerAmounts == {"", "abc", "1", "9007199254740992", "Infinity"}

RECURSIVE LedgerOf(_)
LedgerOf(n) ==
    IF n = 1 THEN <<[id |-> 1, name |-> "Rent/Mortgage", amount |-> ""]>>
    ELSE AddedExpense(LedgerOf(n - 1), n)

InitTotal ==
    /\ grossIncome = ""
    /\ filingStatus = "Single"
    /\ location = ""
    /\ \E n \in 1..MaxExpenses :
          /\ now = n
          /\ expenses = LedgerOf(n)
    /\ netIncome = Null
    /\ estimatedTax = Null
    /\ taxDisclaimer = ""
    /\ analysis = ""
    /\ isLoading = FALSE
    /\ loadingStatus = ""
    /\ error = NoError
    /\ showResults = FALSE
    /\ runs = [r \in Runs |-> NoRun]
    /\ invoked = 0
    /\ inflight = {}
    /\ edits = 0
    /\ prior = InitialOrch
    /\ stub = NoStub

NextTotal ==
    /\ \/ \E id \in IdsOf(expenses) : handleRemoveExpense(id)
       \/ \E id \in IdsOf(expenses), value \in LedgerNames :
             handleExpenseChange(id, "name", value)
       \/ \E id \in IdsOf(expenses), value \in LedgerAmounts :
             handleExpenseChange(id, "amount", value)
    /\ UNCHANGED <<orchVars, now, runVars, edits, ghostVars>>

SpecTotal == InitTotal /\ [][NextTotal]_vars

\* ------------------------------------- calculate() behind the button's guard
\* The Calculate button is disabled while the form is invalid or isLoading is
\* true: handleCalculate is invoked by a click on the enabled button only.
ClickCalculate ==
    /\ ~(~isFormValid \/ isLoading)
    /\ CalculateValid

NextGuarded ==
    \/ Tick
    \/ FormEdit
    \/ LedgerEdit
    \/ ClickCalculate
    \/ ServiceAnswer

SpecGuarded == Init /\ [][NextGuarded]_vars

\* ------------------------------------------- the expenses a run itemizes
\* calculate() with a valid form and a ledger of up to MaxListed entries that
\* have been edited to these names and amounts; entries are removed while a
\* run is in flight.
ListedAmounts == {"", "abc", "1"}

Ledgers(n) ==
    {es \in [1..n -> [id : 1..MaxListed, name : LedgerNames, amount : ListedAmounts]] :
        \A i \in 1..n : es[i].id = i}

InitListed ==
    /\ grossIncome = "5000"
    /\ filingStatus = "Single"
    /\ location = "Austin"
    /\ \E n \in 0..MaxListed :
          /\ expenses \in Ledgers(n)
          /\ now = IF n = 0 THEN 1 ELSE n
    /\ netIncome = Null
    /\ estimatedTax = Null
    /\ taxDisclaimer = ""
    /\ analysis = ""
    /\ isLoading = FALSE
    /\ loadingStatus = ""
    /\ error = NoError
    /\ showResults = FALSE
    /\ runs = [r \in Runs |-> NoRun]
    /\ invoked = 0
    /\ inflight = {}
    /\ edits = 0
    /\ prior = InitialOrch
    /\ stub = NoStub

RemoveWhileLoading ==
    /\ isLoading
    /\ \E id \in IdsOf(expenses) : handleRemoveExpense(id)
    /\ UNCHANGED <<orchVars, now, runVars, edits, ghostVars>>

NextListed ==
    \/ RemoveWhileLoading
    \/ ClickCalculate
    \/ ServiceAnswer

SpecListed == InitListed /\ [][NextListed]_vars

\* ------------------------------------------------ the form and its validity
\* The form is edited to these incomes and locations, among them an income
\* that is zero, negative, not a number, a number followed by letters, a
\* number between blanks and Infinity, and a location of white space only,
\* while the ledger is edited as well.
FormIncomes == {"", "5000", "0", "-5", "abc", "12abc", " 7 ", "Infinity"}
FormLocations == {"", " ", "Austin"}

NextForm ==
    /\ \/ \E value \in FormIncomes : setGrossIncome(value)
       \/ \E value \in FormLocations : setLocation(value)
       \/ handleAddExpense
       \/ \E id \in IdsOf(expenses) : handleRemoveExpense(id)
       \/ \E id \in IdsOf(expenses), value \in NameInputs :
             handleExpenseChange(id, "name", value)
       \/ \E id \in IdsOf(expenses), value \in AmountInputs :
             handleExpenseChange(id, "amount", value)
    /\ UNCHANGED <<orchVars, now, runVars, edits, ghostVars>>

SpecForm == Init /\ [][NextForm]_vars

\* ------------------------------------- calculate() against a deterministic stub
\* What an earlier run, answered otherwise, may have left behind.
EarlierEstimate == [netIncome |-> Num(7000), totalTax |-> Num(500), disclaimer |-> "estimate 0"]
PriorStates ==
    { InitialOrch,
      Rejected(InitialOrch),
      Finished(Caught(Begun(InitialOrch))),
      Finished(Caught(TaxStored(Begun(InitialOrch), EarlierEstimate))),
      Finished(AnalysisStored(TaxStored(Begun(InitialOrch), EarlierEstimate), "tips 0")) }

InitIdem ==
    /\ grossIncome \in IncomeInputs
    /\ filingStatus = "Single"
    /\ location \in LocationInputs
    /\ now = 1
    /\ \E amount \in AmountInputs :
          expenses = <<[id |-> now, name |-> "Rent/Mortgage", amount |-> amount]>>
    /\ prior \in PriorStates
    /\ netIncome = prior.netIncome
    /\ estimatedTax = prior.estimatedTax
    /\ taxDisclaimer = prior.taxDisclaimer
    /\ analysis = prior.analysis
    /\ isLoading = prior.isLoading
    /\ loadingStatus = prior.loadingStatus
    /\ error = prior.error
    /\ showResults = prior.showResults
    /\ runs = [r \in Runs |-> NoRun]
    /\ invoked = 0
    /\ inflight = {}
    /\ edits = 0
    /\ stub \in [tax : StubTaxResponses, analysis : StubAnalysisResponses]

NextIdem ==
    \/ CalculateInvalid
    \/ CalculateValid
    \/ \E r \in Runs : TaxResolve(r, stub.tax)
    \/ \E r \in Runs : TaxReject(r, stub.tax)
    \/ \E r \in Runs : AnalysisResolve(r, stub.analysis)
    \/ \E r \in Runs : AnalysisReject(r, stub.analysis)

SpecIdem == InitIdem /\ [][NextIdem]_vars

\* ------------------------------------------------------------ properties
\* the steps in which invocation r ends
TaxFailureStep(r) ==
    runs[r].pc = "estimating" /\ runs'[r].pc = "errored" /\ runs'[r].taxOutcome = "rejected"
ThrownPromptStep(r) ==
    runs[r].pc = "estimating" /\ runs'[r].pc = "errored" /\ runs'[r].taxOutcome = "resolved"
AnalysisFailureStep(r) == runs[r].pc = "analyzing" /\ runs'[r].pc = "errored"
CompletionStep(r) == runs[r].pc = "analyzing" /\ runs'[r].pc = "complete"
InvocationStep == invoked' = invoked + 1

\* C1 (as stated): when the tax call of a run has succeeded and its analysis
\* call fails, the state in which the run ends has netIncome = null,
\* estimatedTax = null and showResults = false.
C1_PartialEstimateCleared ==
    [][\A r \in Runs :
        (AnalysisFailureStep(r) \/ ThrownPromptStep(r)) =>
            netIncome' = Null /\ estimatedTax' = Null /\ showResults' = FALSE]_vars

\* C1 (amended): when the tax call of a run has succeeded and its analysis
\* call fails, the run ends with showResults = false and the generic error
\* message, and the failure does not clear the tax estimate: netIncome,
\* estimatedTax and taxDisclaimer keep the values they had, which for a run
\* that no other run overlapped are those of its own tax result; when the
\* analysis call fails because the result has no netIncome, netIncome is left
\* undefined.
C1_PartialEstimateHidden ==
    [][\A r \in Runs :
        /\ AnalysisFailureStep(r) =>
              /\ showResults' = FALSE
              /\ error' = GenericMessage
              /\ netIncome' = netIncome
              /\ estimatedTax' = estimatedTax
              /\ taxDisclaimer' = taxDisclaimer
              /\ runs[r].alone =>
                    /\ netIncome' = runs[r].taxResult.netIncome
                    /\ estimatedTax' = runs[r].taxResult.totalTax
                    /\ taxDisclaimer' = runs[r].taxResult.disclaimer
                    /\ netIncome' # Null
        /\ ThrownPromptStep(r) =>
              /\ showResults' = FALSE
              /\ error' = GenericMessage
              /\ netIncome' = Undefined
              /\ estimatedTax' = EstimateFor(r).totalTax]_vars

C1_Witness ==
    \E r \in Runs :
        /\ runs[r].pc = "errored"
        /\ runs[r].taxOutcome = "resolved"
        /\ runs[r].analysisOutcome = "rejected"
        /\ runs[r].alone
        /\ netIncome = EstimateFor(r).netIncome
        /\ estimatedTax = EstimateFor(r).totalTax
        /\ ~showResults
        /\ error = GenericMessage

\* C2 (as stated): the remainingBalance passed to the analysis call is the tax
\* result's netIncome minus the ledger's total at the moment the call is
\* issued, and that total is what is sent as totalExpenses.
C2_BalanceOfLatestTotal ==
    [][\A r \in Runs :
        runs[r].pc = "estimating" /\ runs'[r].pc = "analyzing" =>
            \A m \in {x \in inflight' : x.run = r /\ x.call = "analysis"} :
                /\ m.analysis.totalExpenses = computeTotal(expenses')
                /\ m.analysis.remainingBalance =
                      SubDouble(runs'[r].taxResult.netIncome, computeTotal(expenses'))]_vars

\* C2 (amended): the remainingBalance passed to the analysis call is the tax
\* result's netIncome minus the total of the ledger as it was when calculate()
\* was invoked, and that total is what is sent as totalExpenses: entries
\* added, removed or updated while the tax call is in flight do not count.
C2_BalanceOfTotalAtInvocation ==
    [][\A r \in Runs :
        runs[r].pc = "estimating" /\ runs'[r].pc = "analyzing" =>
            /\ {x \in inflight' : x.run = r /\ x.call = "analysis"} # {}
            /\ \A m \in {x \in inflight' : x.run = r /\ x.call = "analysis"} :
                /\ m.analysis.totalExpenses = computeTotal(runs[r].closure.expenses)
                /\ m.analysis.remainingBalance =
                      SubDouble(runs'[r].taxResult.netIncome,
                                computeTotal(runs[r].closure.expenses))]_vars

C2_Witness ==
    \E m \in inflight :
        /\ m.call = "analysis"
        /\ m.analysis.totalExpenses # totalExpenses
        /\ m.analysis.remainingBalance = SubDouble(netIncome, m.analysis.totalExpenses)
        /\ m.analysis.remainingBalance # remainingBalance

\* C3 (as stated): every failing invocation - a validation failure, a tax
\* failure or an analysis failure - ends with an error message set and
\* showResults = false.
C3_FailureHidesResults ==
    [][/\ (InvocationStep /\ runs'[invoked'].pc = "invalid") =>
              error' # NoError /\ showResults' = FALSE
       /\ \A r \in Runs :
            (TaxFailureStep(r) \/ ThrownPromptStep(r) \/ AnalysisFailureStep(r)) =>
                error' # NoError /\ showResults' = FALSE]_vars

\* C3 (amended): a tax failure or an analysis failure ends with the generic
\* error message set and showResults = false; a validation failure sets the
\* validation message and leaves showResults as it was, so it stays true
\* after an earlier successful run.
C3_FailureSetsError ==
    [][/\ (InvocationStep /\ runs'[invoked'].pc = "invalid") =>
              error' = ValidationMessage /\ showResults' = showResults
       /\ \A r \in Runs :
            (TaxFailureStep(r) \/ ThrownPromptStep(r) \/ AnalysisFailureStep(r)) =>
                error' = GenericMessage /\ showResults' = FALSE]_vars

C3_Witness ==
    \E r, q \in Runs :
        /\ r < q
        /\ runs[r].pc = "complete"
        /\ runs[q].pc = "invalid"
        /\ error = ValidationMessage
        /\ showResults

\* C4: an invocation of calculate() while the form is invalid issues no remote
\* call, neither then nor later, and sets error to the validation message.
C4_InvalidIssuesNoCall ==
    [][/\ (InvocationStep /\ ~isFormValid) =>
              /\ runs'[invoked'].pc = "invalid"
              /\ error' = ValidationMessage
              /\ inflight' = inflight
       /\ \A r \in Runs :
            runs'[r].pc = "invalid" =>
                /\ runs'[r].calls = <<>>
                /\ ~\E m \in inflight' : m.run = r]_vars

C4_Witness ==
    \E r \in Runs :
        /\ runs[r].pc = "invalid"
        /\ runs[r].calls = <<>>
        /\ error = ValidationMessage
        /\ inflight = {}

\* C5: within one run the analysis call is issued only after the tax call of
\* that run has resolved, the two are never outstanding together, and a run
\* whose tax call failed issues no analysis call.
C5_CallsInSequence ==
    \A r \in Runs :
        /\ Cardinality({m \in inflight : m.run = r}) <= 1
        /\ Pending(r, "analysis") # {} => runs[r].taxOutcome = "resolved"
        /\ Pending(r, "tax") # {} => runs[r].taxOutcome = "pending"
        /\ runs[r].calls \in {<<>>, <<"tax">>, <<"tax", "analysis">>}
        /\ runs[r].calls = <<"tax", "analysis">> => runs[r].taxOutcome = "resolved"
        /\ runs[r].taxOutcome = "rejected" =>
              runs[r].calls = <<"tax">> /\ Pending(r, "analysis") = {}

C5_Witness ==
    \E r, q \in Runs :
        /\ runs[r].taxOutcome = "rejected"
        /\ runs[q].taxOutcome = "resolved"
        /\ Pending(q, "analysis") # {}
        /\ Pending(q, "tax") = {}

\* C6: from the start of a valid run to the resolution of its tax call, with
\* no other run in flight in between, netIncome = null, estimatedTax = null,
\* analysis is empty and showResults = true, whatever an earlier run left.
C6_ResultsClearedAtStart ==
    \A r \in Runs :
        (runs[r].pc = "estimating" /\ runs[r].alone) =>
            /\ netIncome = Null
            /\ estimatedTax = Null
            /\ analysis = ""
            /\ showResults
            /\ Pending(r, "tax") # {}

C6_Witness ==
    \E r, q \in Runs :
        /\ r < q
        /\ runs[r].pc = "complete"
        /\ runs[q].pc = "estimating"
        /\ runs[q].alone
        /\ taxDisclaimer = EstimateFor(r).disclaimer
        /\ netIncome = Null

\* C8 (as stated): the step in which a run that passed validation ends sets
\* isLoading = false and loadingStatus = "", and in every state in which some
\* run awaits a remote call isLoading is true and loadingStatus is not empty.
C8_LoadingWhileAwaiting ==
    [][/\ \A r \in Runs :
            (TaxFailureStep(r) \/ ThrownPromptStep(r) \/ AnalysisFailureStep(r)
                \/ CompletionStep(r)) =>
                isLoading' = FALSE /\ loadingStatus' = ""
       /\ ActiveRuns' # {} => isLoading' /\ loadingStatus' # ""]_vars

\* C8 (amended): the step in which a run that passed validation ends sets
\* isLoading = false and loadingStatus = "", whatever the outcome; while a run
\* that no other run has overlapped awaits a remote call, isLoading is true
\* and loadingStatus names the call it awaits.  With overlapping runs the end
\* of one run clears the indicator while another still awaits its call.
C8_LoadingClearedAtEnd ==
    [][\A r \in Runs :
        /\ (TaxFailureStep(r) \/ ThrownPromptStep(r) \/ AnalysisFailureStep(r)
                \/ CompletionStep(r)) =>
              isLoading' = FALSE /\ loadingStatus' = ""
        /\ (runs'[r].pc = "estimating" /\ runs'[r].alone) =>
              isLoading' /\ loadingStatus' = EstimatingStatus
        /\ (runs'[r].pc = "analyzing" /\ runs'[r].alone) =>
              isLoading' /\ loadingStatus' = AnalyzingStatus]_vars

C8_Witness ==
    \E r, q \in Runs :
        /\ runs[r].pc \in {"complete", "errored"}
        /\ runs[q].pc = "analyzing"
        /\ runs[q].alone
        /\ isLoading
        /\ loadingStatus = AnalyzingStatus

\* C9: the entries of the ledger have pairwise distinct ids.
C9_DistinctIds ==
    \A i, j \in DOMAIN expenses : i # j => expenses[i].id # expenses[j].id


\* the state one invocation of calculate() ends in, from the state `prior`,
\* when the stub answers as `stub`
C7_AfterOne ==
    LET tax == getEstimatedNetIncome(stub.tax)
        text == getBudgetAnalysis(stub.analysis)
        failed == [netIncome |-> Null, estimatedTax |-> Null,
                   taxDisclaimer |-> prior.taxDisclaimer, analysis |-> "",
                   isLoading |-> FALSE, loadingStatus |-> "",
                   error |-> GenericMessage, showResults |-> FALSE]
        estimated == [failed EXCEPT !.netIncome = tax.value.netIncome,
                                    !.estimatedTax = tax.value.totalTax,
                                    !.taxDisclaimer = tax.value.disclaimer]
    IN  IF ~isFormValid THEN [prior EXCEPT !.error = ValidationMessage]
        ELSE IF ~tax.ok THEN failed
        ELSE IF tax.value.netIncome = Undefined \/ ~text.ok THEN estimated
        ELSE [estimated EXCEPT !.analysis = text.value, !.error = NoError,
                               !.showResults = TRUE]

\* C7: with the same inputs and a deterministic stub, once every invocation of
\* calculate() has ended the state is the one a single invocation ends in,
\* whether the invocations followed one another or overlapped.
C7_Idempotent ==
    (invoked >= 1 /\ ActiveRuns = {}) => Orch = C7_AfterOne

C7_Witness ==
    /\ invoked = 2
    /\ runs[1].pc = "complete"
    /\ runs[2].pc = "complete"
    /\ ~runs[2].alone
    /\ prior.analysis = "tips 0"
    /\ analysis = "tips 1"

\* the exact sum of the amounts of the entries of es at the indices in S
RECURSIVE C10_Sum(_, _)
C10_Sum(es, S) ==
    IF S = {} THEN 0
    ELSE LET i == CHOOSE j \in S : TRUE
         IN  parseFloat(es[i].amount).v + C10_Sum(es, S \ {i})

C10_Permutations(n) == {p \in [1..n -> 1..n] : \A i, j \in 1..n : i # j => p[i] # p[j]}
C10_Permuted(es, p) == [i \in DOMAIN es |-> es[p[i]]]

C10_NonEmptyFinite(e) == e.name # "" /\ e.amount # "" /\ parseFloat(e.amount).k = "num"
C10_TrimmedParsed(e) ==
    trim(e.name) # "" /\ trim(e.amount) # "" /\ parseFloat(e.amount).k \in {"num", "inf", "ninf"}

\* C10 (as stated): computeTotal() is the sum of the amounts of exactly the
\* entries whose name is non-empty, whose amount is non-empty and whose amount
\* parses to a finite number; it is 0 for the empty ledger and the same for
\* every permutation of the ledger.
C10_TotalOfFiniteEntries ==
    /\ computeTotal(expenses) =
          Num(C10_Sum(expenses, {i \in DOMAIN expenses : C10_NonEmptyFinite(expenses[i])}))
    /\ expenses = <<>> => computeTotal(expenses) = Num(0)
    /\ \A p \in C10_Permutations(Len(expenses)) :
          computeTotal(C10_Permuted(expenses, p)) = computeTotal(expenses)

\* C10 (amended): computeTotal() adds, in ledger order and in floating point,
\* the amounts of exactly the entries whose trimmed name is non-empty, whose
\* trimmed amount is non-empty and whose amount does not parse to NaN.  An
\* amount that parses to Infinity counts and makes the total non-finite.  The
\* result is 0 when no entry counts.  When the amounts that count are finite
\* integers whose sum is below 2^53 the result is exactly their sum and the
\* same for every permutation of the ledger.
C10_TotalOfParsedEntries ==
    LET counted == {i \in DOMAIN expenses : C10_TrimmedParsed(expenses[i])}
        infinite == {i \in counted : parseFloat(expenses[i].amount).k # "num"}
        sum == C10_Sum(expenses, counted)
    IN  /\ counted = {} => computeTotal(expenses) = Num(0)
        /\ infinite # {} => computeTotal(expenses).k \in {"inf", "ninf", "nan"}
        /\ infinite = {} => computeTotal(expenses).k = "num"
        /\ (infinite = {} /\ sum < TwoTo53) =>
              /\ computeTotal(expenses) = Num(sum)
              /\ \A p \in C10_Permutations(Len(expenses)) :
                    computeTotal(C10_Permuted(expenses, p)) = Num(sum)

C10_Witness ==
    /\ Len(expenses) = 3
    /\ \E i, j, k \in DOMAIN expenses :
          /\ expenses[i].name = " " /\ expenses[i].amount = "1"
          /\ expenses[j].name = "Rent/Mortgage" /\ expenses[j].amount = "abc"
          /\ expenses[k].name = "Rent/Mortgage" /\ expenses[k].amount = "1"
    /\ computeTotal(expenses) = Num(1)

\* C11 (as stated): isFormValid is true exactly when grossIncome parses to a
\* finite number greater than 0 and the trimmed location is non-empty.
C11_ValidIffFinitePositive ==
    isFormValid <=>
        /\ parseFloat(grossIncome).k = "num"
        /\ parseFloat(grossIncome).v > 0
        /\ trim(location) # ""

\* C11 (amended): isFormValid is true exactly when parseFloat(grossIncome) is
\* greater than 0 - a finite number or Infinity, read from the longest numeric
\* prefix after leading blanks - and the location is not empty or white space
\* only; it is false for an income that is empty, not a number, zero or
\* negative, and an edit of the ledger does not change it.
C11_ValidIffPositive ==
    [][/\ isFormValid' <=>
              /\ grossIncome' \in {"5000", "12abc", " 7 ", "Infinity"}
              /\ location' = "Austin"
       /\ grossIncome' \in {"", "abc", "0", "-5"} => ~isFormValid'
       /\ location' \in {"", " "} => ~isFormValid'
       /\ (grossIncome' = grossIncome /\ location' = location) =>
              isFormValid' = isFormValid]_vars

C11_Witness ==
    /\ grossIncome = "Infinity"
    /\ location = "Austin"
    /\ expenses = <<>>
    /\ isFormValid

\* the step in which invocation r issues its analysis call
AnalysisCallStep(r) == runs[r].pc = "estimating" /\ runs'[r].pc = "analyzing"

C12_Counted(e) == e.amount \in {"1500"} /\ e.name # ""
C12_NoneCounted(es) == \A i \in DOMAIN es : ~C12_Counted(es[i])
C12_NoneFilled(es) == \A i \in DOMAIN es : es[i].name = "" \/ es[i].amount = ""

C13_Of(r, requests) == {m \in requests : m.run = r}

\* the calls invocation r has issued, as its own progress determines them
C13_OwnCalls(r) ==
    CASE runs[r].pc \in {"unused", "invalid"} -> <<>>
      [] runs[r].pc = "estimating" -> <<"tax">>
      [] runs[r].pc = "analyzing" -> <<"tax", "analysis">>
      [] runs[r].pc = "complete" -> <<"tax", "analysis">>
      [] runs[r].pc = "errored" ->
            IF runs[r].taxOutcome = "rejected" THEN <<"tax">> ELSE <<"tax", "analysis">>

\* C13: an invocation of calculate() with a valid form while another run is
\* in flight starts a run of its own, which issues its own tax call at once
\* and its own analysis call when its tax call has resolved; the calls a run
\* has issued are determined by its own progress, and a step of one run
\* changes neither the position, the calls nor the pending requests of
\* another.
C13_OverlappingRunsIndependent ==
    [][/\ (InvocationStep /\ isFormValid /\ ActiveRuns # {}) =>
              /\ runs'[invoked'].pc = "estimating"
              /\ C13_Of(invoked', inflight') = {TaxCall(invoked', TaxRequest(Closure))}
              /\ ActiveRuns' = ActiveRuns \cup {invoked'}
       /\ \A r \in Runs :
            /\ runs'[r].calls = C13_OwnCalls(r)'
            /\ (AnalysisCallStep(r) /\ ~runs[r].alone) =>
                  \E m \in C13_Of(r, inflight') : m.call = "analysis"
            /\ \A q \in Runs \ {r} :
                  runs'[r].pc # runs[r].pc =>
                      /\ runs'[q].pc = runs[q].pc
                      /\ runs'[q].calls = runs[q].calls
                      /\ C13_Of(q, inflight') = C13_Of(q, inflight)]_vars

C13_Witness ==
    /\ runs[1].pc = "errored"
    /\ ~runs[1].alone
    /\ runs[2].pc = "analyzing"
    /\ runs[2].calls = <<"tax", "analysis">>
    /\ \E m \in inflight : m.run = 2 /\ m.call = "analysis"

\* C14: when calculate() is invoked through the button only, which is enabled
\* while isFormValid is true and isLoading is false, at most one run awaits a
\* remote call in every reachable state, at most one request is pending, and
\* isLoading is true exactly while a run awaits.
C14_OneRunBehindGuard ==
    /\ Cardinality(ActiveRuns) <= 1
    /\ Cardinality(inflight) <= 1
    /\ isLoading <=> ActiveRuns # {}
    /\ \A r \in Runs : runs[r].alone /\ runs[r].pc # "invalid"

C14_Witness ==
    /\ runs[1].pc \in {"complete", "errored"}
    /\ runs[2].pc = "analyzing"
    /\ ActiveRuns = {2}
    /\ isLoading

C15_NonEmpty(e) == e.name # "" /\ e.amount # ""
C15_NotBlank(e) == e.name \notin {"", " "} /\ e.amount \notin {"", " "}

\* C15 (as stated): the expense list of the analysis request of a run is made
\* of exactly the entries whose name is non-empty and whose amount is
\* non-empty, in ledger order.
C15_ListOfNonEmptyEntries ==
    [][\A r \in Runs :
        AnalysisCallStep(r) =>
            \A m \in {x \in inflight' : x.run = r /\ x.call = "analysis"} :
                m.analysis.expenses = SelectSeq(runs[r].closure.expenses, C15_NonEmpty)]_vars

\* C15 (amended): the expense list of the analysis request of a run is made of
\* exactly the entries of the ledger the run was invoked with whose name and
\* amount are neither empty nor white space only, in ledger order; an entry
\* whose amount is not a number is listed although it does not count in the
\* totalExpenses of the same request, and an entry removed while the tax call
\* was in flight is still listed.
C15_ListOfNamedEntries ==
    [][\A r \in Runs :
        AnalysisCallStep(r) =>
            /\ \E m \in inflight' : m.run = r /\ m.call = "analysis"
            /\ \A m \in {x \in inflight' : x.run = r /\ x.call = "analysis"} :
                  /\ m.analysis.expenses = SelectSeq(runs[r].closure.expenses, C15_NotBlank)
                  /\ m.analysis.totalExpenses =
                        Num(Cardinality({i \in DOMAIN m.analysis.expenses :
                                            m.analysis.expenses[i].amount = "1"}))]_vars

C15_Witness ==
    \E m \in inflight :
        /\ m.call = "analysis"
        /\ runs[m.run].closure.expenses =
              << [id |-> 1, name |-> " ", amount |-> "1"],
                 [id |-> 2, name |-> "Rent/Mortgage", amount |-> "abc"] >>
        /\ m.analysis.expenses = <<[id |-> 2, name |-> "Rent/Mortgage", amount |-> "abc"]>>
        /\ m.analysis.totalExpenses = Num(0)
        /\ expenses = <<>>

\* C16: when a run that no other invocation of calculate() overlapped
\* completes, the state has showResults = true, error = null, isLoading =
\* false, netIncome, estimatedTax and taxDisclaimer equal to the three fields
\* of the run's tax result and analysis equal to the run's narrative; a run is
\* complete only after it was estimating and then analyzing, with both of its
\* calls resolved.
C16_CompleteShowsOwnResults ==
    [][\A r \in Runs :
        /\ (CompletionStep(r) /\ runs[r].alone /\ invoked = r) =>
              /\ showResults'
              /\ error' = NoError
              /\ isLoading' = FALSE
              /\ loadingStatus' = ""
              /\ netIncome' = EstimateFor(r).netIncome
              /\ estimatedTax' = EstimateFor(r).totalTax
              /\ taxDisclaimer' = EstimateFor(r).disclaimer
              /\ runs[r].taxResult = EstimateFor(r)
              /\ analysis' = NarrativeFor(r)
        /\ runs'[r].pc = "complete" =>
              /\ runs[r].pc \in {"analyzing", "complete"}
              /\ runs'[r].calls = <<"tax", "analysis">>
              /\ runs'[r].taxOutcome = "resolved"
              /\ runs'[r].analysisOutcome = "resolved"
        /\ runs'[r].pc = "analyzing" => runs[r].pc \in {"estimating", "analyzing"}
        /\ runs'[r].pc = "estimating" => runs[r].pc \in {"unused", "estimating"}]_vars

C16_Witness ==
    /\ runs[1].pc = "errored"
    /\ runs[2].pc = "complete"
    /\ runs[2].alone
    /\ showResults
    /\ error = NoError
    /\ ~isLoading
    /\ netIncome = EstimateFor(2).netIncome
    /\ taxDisclaimer = EstimateFor(2).disclaimer
    /\ analysis = NarrativeFor(2)

\* C17: when the service answers the analysis request with an empty
\* narrative, getBudgetAnalysis fails, so that no run completes and none
\* leaves showResults = true with an empty analysis.
C17_EmptyNarrativeFails ==
    stub.analysis = TextResponse("") =>
        \A r \in Runs :
            /\ runs[r].pc # "complete"
            /\ runs[r].analysisOutcome # "resolved"

\* C18: getEstimatedNetIncome fails when the service's answer is not JSON and
\* when it is a JSON object without estimatedNetIncome or estimatedTotalTax,
\* so that no tax call resolves with an absent field and no run completes
\* with netIncome or estimatedTax undefined.
C18_AbsentFieldFails ==
    /\ (\/ stub.tax.kind # "json"
        \/ stub.tax.json.estimatedNetIncome = Undefined
        \/ stub.tax.json.estimatedTotalTax = Undefined) =>
            \A r \in Runs : runs[r].taxOutcome # "resolved"
    /\ \A r \in Runs :
          runs[r].pc = "complete" => netIncome # Undefined /\ estimatedTax # Undefined

\* the ids remove() is called with: those the clock has given and one more
C19_Ids == 1..(MaxClock + 1)

\* out is es without the entries whose id is id: the j-th entry of out is the
\* j-th of the entries of es with another id
C19_IsWithout(out, es, id) ==
    LET kept == {i \in DOMAIN es : es[i].id # id}
    IN  /\ Len(out) = Cardinality(kept)
        /\ \A k \in kept :
              out[Cardinality({i \in kept : i <= k})] = es[k]

\* C19: remove(id) deletes every entry whose id is id and leaves the other
\* entries and their order as they were; with no such entry the ledger is
\* unchanged, and a second remove(id) changes nothing.  A step that shortens
\* the ledger is such a removal.
C19_RemoveDeletesMatching ==
    /\ [](\A id \in C19_Ids :
            /\ C19_IsWithout(RemovedExpense(expenses, id), expenses, id)
            /\ id \notin IdsOf(expenses) => RemovedExpense(expenses, id) = expenses
            /\ RemovedExpense(RemovedExpense(expenses, id), id) = RemovedExpense(expenses, id))
    /\ [][Len(expenses') < Len(expenses) =>
              \E id \in IdsOf(expenses) :
                  /\ C19_IsWithout(expenses', expenses, id)
                  /\ id \notin IdsOf(expenses')]_vars

C19_Witness ==
    /\ edits = 2
    /\ Len(expenses) = 1
    /\ expenses[1].id = 2

\* C20 (as stated): a run that awaits a remote call has isLoading = true for
\* as long as the call is not answered.
C20_PendingKeepsLoading == \A r \in Runs : Active(r) => isLoading

\* C20 (amended): when every request that is issued is answered, every run
\* that passed validation ends complete or errored and isLoading becomes
\* false.  Nothing but the answer to its own pending request ends a run - no
\* passage of time does - so a run whose request is never answered awaits
\* forever; isLoading stays true meanwhile when no other run overlaps it, and
\* is cleared by the end of an overlapping run otherwise.
C20_AnsweredRunsEnd ==
    /\ \A r \in Runs : Active(r) ~> runs[r].pc \in {"complete", "errored"}
    /\ isLoading ~> ~isLoading
    /\ [][\A r \in Runs :
            (Active(r) /\ runs'[r].pc # runs[r].pc) =>
                /\ now' = now
                /\ \E m \in inflight : m.run = r /\ inflight \ inflight' = {m}]_vars
    /\ [](\A r \in Runs :
            Active(r) =>
                /\ \E m \in inflight : m.run = r
                /\ runs[r].alone => isLoading)

C20_Witness ==
    /\ invoked = MaxRuns
    /\ \A r \in Runs : runs[r].pc \in {"complete", "errored"}
    /\ runs[1].pc = "complete"
    /\ ~runs[1].alone
    /\ inflight = {}
    /\ ~isLoading

\* C21: once two overlapping runs have both completed, netIncome,
\* estimatedTax, taxDisclaimer and analysis all come from one and the same
\* run, in whatever order the four answers arrived.
C21_ResultsOfOneRun ==
    LET done == {r \in Runs : runs[r].pc = "complete" /\ ~runs[r].alone}
    IN  (Cardinality(done) >= 2 /\ ActiveRuns = {}) =>
            \E r \in done :
                /\ netIncome = EstimateFor(r).netIncome
                /\ estimatedTax = EstimateFor(r).totalTax
                /\ taxDisclaimer = EstimateFor(r).disclaimer
                /\ analysis = NarrativeFor(r)

\* C22: the tax request of a run carries the income, location and filing
\* status the form held when calculate() was invoked, and the analysis request
\* of the run carries the same income and location as its tax request did,
\* whatever the form has been edited to while the tax call was in flight.
C22_RequestsOfInvocation ==
    [][/\ (InvocationStep /\ isFormValid) =>
              \E t \in inflight' \ inflight :
                  /\ t.run = invoked'
                  /\ t.call = "tax"
                  /\ t.tax.grossMonthlyIncome = parseFloat(grossIncome)
                  /\ t.tax.location = location
                  /\ t.tax.filingStatus = filingStatus
       /\ \A r \in Runs :
            AnalysisCallStep(r) =>
                \E t \in inflight \ inflight' : \E m \in inflight' \ inflight :
                    /\ t.run = r /\ t.call = "tax"
                    /\ m.run = r /\ m.call = "analysis"
                    /\ m.analysis.grossIncome = t.tax.grossMonthlyIncome
                    /\ m.analysis.location = t.tax.location
                    /\ m.analysis.grossIncome = Num(5000)
                    /\ m.analysis.location = "Austin"]_vars

C22_Witness ==
    \E m \in inflight :
        /\ m.call = "analysis"
        /\ m.analysis.location = "Austin"
        /\ m.analysis.grossIncome = Num(5000)
        /\ \/ location = ""
           \/ grossIncome = ""

====
